---- MODULE Spec2Model ----
(***************************************************************************)
(* Model of fs/quota/quota.c: the quotactl(2) entry point, its legacy      *)
(* (CONFIG_QUOTA_COMPAT) command words, the permission check, the target   *)
(* (super block) lookup and the dispatch to the filesystem's quotactl_ops. *)
(*                                                                         *)
(* One request is in flight at a time.  Every C function is an operator    *)
(* that yields the set of its possible outcomes; an outcome is the value   *)
(* returned and the sequence of events (user-memory accesses, lookups,     *)
(* permission decisions, calls through s_qcop, releases) that the function *)
(* performed, in program order.  What the environment decides (a faulting  *)
(* user pointer, the verdict of the security hook, the value a filesystem  *)
(* operation returns) is chosen where the code reads it.                   *)
(***************************************************************************)
EXTENDS Integers, Sequences, FiniteSets, TLC

VARIABLES pc, req, fs, frozen, log, ret, idq, fdq, odq

vars == <<pc, req, fs, frozen, log, ret, idq, fdq, odq>>

----------------------------------------------------------------------------
(* Bounds of the model *)

MaxType == 3
MaxId == 2
MaxSupers == 2
MaxField == 1
MaxValid == 64

----------------------------------------------------------------------------
(* Constants of the program *)

MAXQUOTAS == 2
XQM_MAXQUOTAS == 3
USRQUOTA == 0
GRPQUOTA == 1
FS_QSTATV_VERSION1 == 1

(* the caller's effective uid and effective groups; qid_t -1 maps to no kqid *)
CallerEuid == 1
CallerEgroups == {2}
InvalidId == -1

PrimaryCmds ==
  {"Q_QUOTAON", "Q_QUOTAOFF", "Q_GETFMT", "Q_GETINFO", "Q_SETINFO",
   "Q_GETQUOTA", "Q_SETQUOTA", "Q_SYNC", "Q_XQUOTAON", "Q_XQUOTAOFF",
   "Q_XQUOTARM", "Q_XGETQSTAT", "Q_XGETQSTATV", "Q_XSETQLIM",
   "Q_XGETQUOTA", "Q_XQUOTASYNC", "Q_UNKNOWN", "Q_XUNKNOWN"}

(* command words with 0x0100 <= cmds < 0x3000 *)
CompatCmds ==
  {"QC_QUOTAON", "QC_QUOTAOFF", "QC_SYNC", "QC_GETQUOTA", "QC_SETQUOTA",
   "QC_SETUSE", "QC_SETQLIM", "QC_GETINFO", "QC_SETINFO", "QC_SETGRACE",
   "QC_SETFLAGS", "QC_GETSTATS", "QC_UNKNOWN"}

Cmds == PrimaryCmds \cup CompatCmds
Types == 0..MaxType
Ids == (1..MaxId) \cup {InvalidId}
Specials == {"NULL", "badptr", "nodev", "nomount", "dev"}

(* the members of struct quotactl_ops that quota.c calls through *)
Ops ==
  {"quota_on", "quota_on_meta", "quota_off", "quota_sync", "get_info",
   "set_info", "get_dqblk", "set_dqblk", "get_xstate", "get_xstatev",
   "set_xstate", "rm_xquota"}

(* the super block mounted on the device: s_qcop (NULL or a table whose     *)
(* members may be NULL) and MS_RDONLY                                       *)
FsConfigs ==
  { [has_qcop |-> TRUE, ops |-> o, rdonly |-> r] :
      o \in ({Ops, {}} \cup { Ops \ {x} : x \in Ops }), r \in BOOLEAN }
  \cup { [has_qcop |-> FALSE, ops |-> {}, rdonly |-> r] : r \in BOOLEAN }

NoReq == [cmds |-> "none", type |-> 0, special |-> "NULL", id |-> InvalidId,
          admin |-> FALSE]

----------------------------------------------------------------------------
(* The two quota records and their translation *)

QIF_BLIMITS == 1
QIF_SPACE == 2
QIF_ILIMITS == 4
QIF_INODES == 8
QIF_BTIME == 16
QIF_ITIME == 32
QIF_ALL == 63

FS_DQ_ISOFT == 1
FS_DQ_IHARD == 2
FS_DQ_BSOFT == 4
FS_DQ_BHARD == 8
FS_DQ_BTIMER == 64
FS_DQ_ITIMER == 128
FS_DQ_BCOUNT == 4096
FS_DQ_ICOUNT == 8192

(* the values a numeric field of either record takes; both records hold   *)
(* every field in the same range                                          *)
FieldVals == 0..MaxField

(* struct if_dqblk as the caller passes it *)
IfDqblks ==
  [dqb_bhardlimit : FieldVals, dqb_bsoftlimit : FieldVals,
   dqb_curspace : FieldVals, dqb_ihardlimit : FieldVals,
   dqb_isoftlimit : FieldVals, dqb_curinodes : FieldVals,
   dqb_btime : FieldVals, dqb_itime : FieldVals, dqb_valid : 0..MaxValid]

NoIfDqblk ==
  [dqb_bhardlimit |-> 0, dqb_bsoftlimit |-> 0, dqb_curspace |-> 0,
   dqb_ihardlimit |-> 0, dqb_isoftlimit |-> 0, dqb_curinodes |-> 0,
   dqb_btime |-> 0, dqb_itime |-> 0, dqb_valid |-> 0]

NoFsDiskQuota ==
  [d_blk_hardlimit |-> 0, d_blk_softlimit |-> 0, d_bcount |-> 0,
   d_ino_hardlimit |-> 0, d_ino_softlimit |-> 0, d_icount |-> 0,
   d_btimer |-> 0, d_itimer |-> 0, d_fieldmask |-> 0]

(* v & b for a one-bit b *)
And(v, b) == IF (v \div b) % 2 = 1 THEN b ELSE 0

(* m | b for a one-bit b *)
Or(m, b) == IF And(m, b) # 0 THEN m ELSE m + b

(* the hard and the soft limits exchanged *)
copy_to_if_dqblk_swapped(src) ==
  [dqb_bhardlimit |-> src.d_blk_softlimit,
   dqb_bsoftlimit |-> src.d_blk_hardlimit,
   dqb_curspace |-> src.d_bcount,
   dqb_ihardlimit |-> src.d_ino_softlimit,
   dqb_isoftlimit |-> src.d_ino_hardlimit,
   dqb_curinodes |-> src.d_icount,
   dqb_btime |-> src.d_btimer,
   dqb_itime |-> src.d_itimer,
   dqb_valid |-> QIF_ALL]

copy_to_if_dqblk(src) ==
  [dqb_bhardlimit |-> src.d_blk_hardlimit,
   dqb_bsoftlimit |-> src.d_blk_softlimit,
   dqb_curspace |-> src.d_bcount,
   dqb_ihardlimit |-> src.d_ino_hardlimit,
   dqb_isoftlimit |-> src.d_ino_softlimit,
   dqb_curinodes |-> src.d_icount,
   dqb_btime |-> src.d_btimer,
   dqb_itime |-> src.d_itimer,
   dqb_valid |-> QIF_ALL]

(* QIF_SPACE mapped to the inode count and QIF_INODES to the block count *)
copy_from_if_dqblk_counts_crossed(src) ==
  LET m0 == 0
      m1 == IF And(src.dqb_valid, QIF_BLIMITS) # 0
            THEN Or(Or(m0, FS_DQ_BSOFT), FS_DQ_BHARD) ELSE m0
      m2 == IF And(src.dqb_valid, QIF_SPACE) # 0
            THEN Or(m1, FS_DQ_ICOUNT) ELSE m1
      m3 == IF And(src.dqb_valid, QIF_ILIMITS) # 0
            THEN Or(Or(m2, FS_DQ_ISOFT), FS_DQ_IHARD) ELSE m2
      m4 == IF And(src.dqb_valid, QIF_INODES) # 0
            THEN Or(m3, FS_DQ_BCOUNT) ELSE m3
      m5 == IF And(src.dqb_valid, QIF_BTIME) # 0
            THEN Or(m4, FS_DQ_BTIMER) ELSE m4
      m6 == IF And(src.dqb_valid, QIF_ITIME) # 0
            THEN Or(m5, FS_DQ_ITIMER) ELSE m5
  IN [d_blk_hardlimit |-> src.dqb_bhardlimit,
      d_blk_softlimit |-> src.dqb_bsoftlimit,
      d_bcount |-> src.dqb_curspace,
      d_ino_hardlimit |-> src.dqb_ihardlimit,
      d_ino_softlimit |-> src.dqb_isoftlimit,
      d_icount |-> src.dqb_curinodes,
      d_btimer |-> src.dqb_btime,
      d_itimer |-> src.dqb_itime,
      d_fieldmask |-> m6]

copy_from_if_dqblk(src) ==
  LET m0 == 0
      m1 == IF And(src.dqb_valid, QIF_BLIMITS) # 0
            THEN Or(Or(m0, FS_DQ_BSOFT), FS_DQ_BHARD) ELSE m0
      m2 == IF And(src.dqb_valid, QIF_SPACE) # 0
            THEN Or(m1, FS_DQ_BCOUNT) ELSE m1
      m3 == IF And(src.dqb_valid, QIF_ILIMITS) # 0
            THEN Or(Or(m2, FS_DQ_ISOFT), FS_DQ_IHARD) ELSE m2
      m4 == IF And(src.dqb_valid, QIF_INODES) # 0
            THEN Or(m3, FS_DQ_ICOUNT) ELSE m3
      m5 == IF And(src.dqb_valid, QIF_BTIME) # 0
            THEN Or(m4, FS_DQ_BTIMER) ELSE m4
      m6 == IF And(src.dqb_valid, QIF_ITIME) # 0
            THEN Or(m5, FS_DQ_ITIMER) ELSE m5
  IN [d_blk_hardlimit |-> src.dqb_bhardlimit,
      d_blk_softlimit |-> src.dqb_bsoftlimit,
      d_bcount |-> src.dqb_curspace,
      d_ino_hardlimit |-> src.dqb_ihardlimit,
      d_ino_softlimit |-> src.dqb_isoftlimit,
      d_icount |-> src.dqb_curinodes,
      d_btimer |-> src.dqb_btime,
      d_itimer |-> src.dqb_itime,
      d_fieldmask |-> m6]

----------------------------------------------------------------------------
(* Outcomes and their sequencing *)

Out(r, ev) == [ret |-> r, ev |-> ev]

Pre(ev, S) == { Out(o.ret, ev \o o.ev) : o \in S }

(* run A; when it failed return its error, else run B *)
Then(A, B) == UNION { IF a.ret = "OK" THEN Pre(a.ev, B) ELSE {a} : a \in A }

copy_from_user == { Out("OK", << <<"copy_from_user", "ok">> >>),
                    Out("EFAULT", << <<"copy_from_user", "fault">> >>) }

copy_to_user == { Out("OK", << <<"copy_to_user", "ok">> >>),
                  Out("EFAULT", << <<"copy_to_user", "fault">> >>) }

(* sb->s_qcop->op(...) where the member was checked to be set *)
Call(op) == { Out(r, << <<"call", op>> >>) : r \in {"OK", "EIO"} }

(* sb->s_qcop->op(...) with no check: a NULL s_qcop or a NULL member oopses *)
RawCall(f, op) ==
  IF (~f.has_qcop) \/ op \notin f.ops
  THEN { Out("OOPS", << <<"nullcall", op>> >>) }
  ELSE Call(op)

(* make_kqid() + qid_valid(): BUG() on a type that is no quota type *)
qid_valid(type, id) ==
  IF type > 2 THEN { Out("OOPS", << <<"BUG", "make_kqid">> >>) }
  ELSE IF id = InvalidId THEN { Out("EINVAL", <<>>) }
  ELSE { Out("OK", <<>>) }

----------------------------------------------------------------------------
(* check_quotactl_permission *)

security_quotactl ==
  { Out("OK", << <<"security_quotactl", "allow">> >>),
    Out("EACCES", << <<"security_quotactl", "deny">> >>) }

(* the security hook skipped for a caller with CAP_SYS_ADMIN *)
check_quotactl_permission_admin_skips_hook(type, cmd, id, admin) ==
  Pre(<< <<"perm", cmd>> >>,
    IF cmd \in {"Q_GETFMT", "Q_SYNC", "Q_GETINFO", "Q_XGETQSTAT",
                "Q_XGETQSTATV", "Q_XQUOTASYNC"}
    THEN security_quotactl
    ELSE IF cmd \in {"Q_GETQUOTA", "Q_XGETQUOTA"}
            /\ (   (type = USRQUOTA /\ id = CallerEuid)
                \/ (type = GRPQUOTA /\ id \in CallerEgroups))
    THEN security_quotactl
    ELSE IF ~admin
    THEN { Out("EPERM", << <<"capable", "no">> >>) }
    ELSE { Out("OK", << <<"capable", "yes">> >>) })

(* the ownership test without the quota type *)
check_quotactl_permission_any_type(type, cmd, id, admin) ==
  Pre(<< <<"perm", cmd>> >>,
    IF cmd \in {"Q_GETFMT", "Q_SYNC", "Q_GETINFO", "Q_XGETQSTAT",
                "Q_XGETQSTATV", "Q_XQUOTASYNC"}
    THEN security_quotactl
    ELSE IF cmd \in {"Q_GETQUOTA", "Q_XGETQUOTA"}
            /\ (id = CallerEuid \/ id \in CallerEgroups)
    THEN security_quotactl
    ELSE IF ~admin
    THEN { Out("EPERM", << <<"capable", "no">> >>) }
    ELSE Pre(<< <<"capable", "yes">> >>, security_quotactl))

check_quotactl_permission(type, cmd, id, admin) ==
  Pre(<< <<"perm", cmd>> >>,
    IF cmd \in {"Q_GETFMT", "Q_SYNC", "Q_GETINFO", "Q_XGETQSTAT",
                "Q_XGETQSTATV", "Q_XQUOTASYNC"}
    THEN security_quotactl
    ELSE IF cmd \in {"Q_GETQUOTA", "Q_XGETQUOTA"}
            /\ (   (type = USRQUOTA /\ id = CallerEuid)
                \/ (type = GRPQUOTA /\ id \in CallerEgroups))
    THEN security_quotactl
    ELSE IF ~admin
    THEN { Out("EPERM", << <<"capable", "no">> >>) }
    ELSE Pre(<< <<"capable", "yes">> >>, security_quotactl))

----------------------------------------------------------------------------
(* The per-command helpers of do_quotactl *)

(* quota_on() called without looking at IS_ERR(path) *)
quota_quotaon_unchecked_path(f, pathp) ==
  IF "quota_on" \notin f.ops /\ "quota_on_meta" \notin f.ops
  THEN { Out("ENOSYS", <<>>) }
  ELSE IF "quota_on_meta" \in f.ops THEN Call("quota_on_meta")
  ELSE Call("quota_on")

quota_quotaon(f, pathp) ==
  IF "quota_on" \notin f.ops /\ "quota_on_meta" \notin f.ops
  THEN { Out("ENOSYS", <<>>) }
  ELSE IF "quota_on_meta" \in f.ops THEN Call("quota_on_meta")
  ELSE IF pathp = "ERR" THEN { Out("PTR_ERR(path)", <<>>) }
  ELSE Call("quota_on")

(* sb_has_quota_active() is state of the quota engine, read under its mutex *)
quota_getfmt ==
  { Out("ESRCH", <<>>) } \cup copy_to_user

(* the result copied out before the return value of get_info is looked at *)
quota_getinfo_copies_on_error(f) ==
  IF "get_info" \notin f.ops THEN { Out("ENOSYS", <<>>) }
  ELSE UNION { { Out(IF c.ret = "OK" THEN u.ret ELSE c.ret, c.ev \o u.ev) :
                   u \in copy_to_user } : c \in Call("get_info") }

quota_getinfo(f) ==
  IF "get_info" \notin f.ops THEN { Out("ENOSYS", <<>>) }
  ELSE Then(Call("get_info"), copy_to_user)

quota_setinfo(f) ==
  Then(copy_from_user,
       IF "set_info" \notin f.ops THEN { Out("ENOSYS", <<>>) }
       ELSE Call("set_info"))

quota_getquota(f, type, id) ==
  IF "get_dqblk" \notin f.ops THEN { Out("ENOSYS", <<>>) }
  ELSE Then(qid_valid(type, id), Then(Call("get_dqblk"), copy_to_user))

quota_setquota(f, type, id) ==
  Then(copy_from_user,
       IF "set_dqblk" \notin f.ops THEN { Out("ENOSYS", <<>>) }
       ELSE Then(qid_valid(type, id), Call("set_dqblk")))

quota_setxstate(f) ==
  Then(copy_from_user,
       IF "set_xstate" \notin f.ops THEN { Out("ENOSYS", <<>>) }
       ELSE Call("set_xstate"))

quota_getxstate(f) ==
  IF "get_xstate" \notin f.ops THEN { Out("ENOSYS", <<>>) }
  ELSE Then(Call("get_xstate"), copy_to_user)

(* the switch on qs_version without its default case *)
quota_getxstatev_any_version(f) ==
  IF "get_xstatev" \notin f.ops THEN { Out("ENOSYS", <<>>) }
  ELSE Then(copy_from_user,
         UNION { IF version = FS_QSTATV_VERSION1
                 THEN Then(Call("get_xstatev"), copy_to_user)
                 ELSE Pre(<< <<"qs_version", "unknown">> >>,
                          Then(Call("get_xstatev"), copy_to_user))
                 : version \in {FS_QSTATV_VERSION1, FS_QSTATV_VERSION1 + 1} })

(* copy_from_user(&fqs, addr, 1) reads only qs_version *)
quota_getxstatev(f) ==
  IF "get_xstatev" \notin f.ops THEN { Out("ENOSYS", <<>>) }
  ELSE Then(copy_from_user,
         UNION { IF version = FS_QSTATV_VERSION1
                 THEN Then(Call("get_xstatev"), copy_to_user)
                 ELSE { Out("EINVAL", << <<"qs_version", "unknown">> >>) }
                 : version \in {FS_QSTATV_VERSION1, FS_QSTATV_VERSION1 + 1} })

quota_setxquota(f, type, id) ==
  Then(copy_from_user,
       IF "set_dqblk" \notin f.ops THEN { Out("ENOSYS", <<>>) }
       ELSE Then(qid_valid(type, id), Call("set_dqblk")))

quota_getxquota(f, type, id) ==
  IF "get_dqblk" \notin f.ops THEN { Out("ENOSYS", <<>>) }
  ELSE Then(qid_valid(type, id), Then(Call("get_dqblk"), copy_to_user))

(* sb_has_rm_xquota() is a flag of the filesystem type *)
quota_rmxquota(f) ==
  Then(copy_from_user,
       { Out("ENOSYS", <<>>) } \cup
       (IF "rm_xquota" \notin f.ops THEN {} ELSE Call("rm_xquota")))

----------------------------------------------------------------------------
(* do_quotactl *)

XQM_COMMAND(cmd) ==
  cmd \in {"Q_XQUOTAON", "Q_XQUOTAOFF", "Q_XQUOTARM", "Q_XGETQSTAT",
           "Q_XGETQSTATV", "Q_XSETQLIM", "Q_XGETQUOTA", "Q_XQUOTASYNC",
           "Q_XUNKNOWN"}

(* Q_XQUOTASYNC without the MS_RDONLY test *)
dispatch_xquotasync_ignores_rdonly(f, type, cmd, id, pathp) ==
  CASE cmd = "Q_QUOTAON" -> quota_quotaon(f, pathp)
    [] cmd = "Q_QUOTAOFF" ->
         IF "quota_off" \notin f.ops THEN { Out("ENOSYS", <<>>) }
         ELSE Call("quota_off")
    [] cmd = "Q_GETFMT" -> quota_getfmt
    [] cmd = "Q_GETINFO" -> quota_getinfo(f)
    [] cmd = "Q_SETINFO" -> quota_setinfo(f)
    [] cmd = "Q_GETQUOTA" -> quota_getquota(f, type, id)
    [] cmd = "Q_SETQUOTA" -> quota_setquota(f, type, id)
    [] cmd = "Q_SYNC" ->
         IF "quota_sync" \notin f.ops THEN { Out("ENOSYS", <<>>) }
         ELSE Call("quota_sync")
    [] cmd \in {"Q_XQUOTAON", "Q_XQUOTAOFF"} -> quota_setxstate(f)
    [] cmd = "Q_XQUOTARM" -> quota_rmxquota(f)
    [] cmd = "Q_XGETQSTAT" -> quota_getxstate(f)
    [] cmd = "Q_XGETQSTATV" -> quota_getxstatev(f)
    [] cmd = "Q_XSETQLIM" -> quota_setxquota(f, type, id)
    [] cmd = "Q_XGETQUOTA" -> quota_getxquota(f, type, id)
    [] cmd = "Q_XQUOTASYNC" ->
         { Out("OK", <<>>) }
    [] OTHER -> { Out("EINVAL", <<>>) }

dispatch(f, type, cmd, id, pathp) ==
  CASE cmd = "Q_QUOTAON" -> quota_quotaon(f, pathp)
    [] cmd = "Q_QUOTAOFF" ->
         IF "quota_off" \notin f.ops THEN { Out("ENOSYS", <<>>) }
         ELSE Call("quota_off")
    [] cmd = "Q_GETFMT" -> quota_getfmt
    [] cmd = "Q_GETINFO" -> quota_getinfo(f)
    [] cmd = "Q_SETINFO" -> quota_setinfo(f)
    [] cmd = "Q_GETQUOTA" -> quota_getquota(f, type, id)
    [] cmd = "Q_SETQUOTA" -> quota_setquota(f, type, id)
    [] cmd = "Q_SYNC" ->
         IF "quota_sync" \notin f.ops THEN { Out("ENOSYS", <<>>) }
         ELSE Call("quota_sync")
    [] cmd \in {"Q_XQUOTAON", "Q_XQUOTAOFF"} -> quota_setxstate(f)
    [] cmd = "Q_XQUOTARM" -> quota_rmxquota(f)
    [] cmd = "Q_XGETQSTAT" -> quota_getxstate(f)
    [] cmd = "Q_XGETQSTATV" -> quota_getxstatev(f)
    [] cmd = "Q_XSETQLIM" -> quota_setxquota(f, type, id)
    [] cmd = "Q_XGETQUOTA" -> quota_getxquota(f, type, id)
    [] cmd = "Q_XQUOTASYNC" ->
         IF f.rdonly THEN { Out("EROFS", <<>>) } ELSE { Out("OK", <<>>) }
    [] OTHER -> { Out("EINVAL", <<>>) }

class_valid(type, cmd) ==
  type < (IF XQM_COMMAND(cmd) THEN XQM_MAXQUOTAS ELSE MAXQUOTAS)

(* the permission check moved behind the command helper *)
do_quotactl_late_check(f, type, cmd, id, admin, pathp) ==
  IF ~class_valid(type, cmd) THEN { Out("EINVAL", <<>>) }
  ELSE IF ~f.has_qcop THEN { Out("ENOSYS", <<>>) }
  ELSE Then(dispatch(f, type, cmd, id, pathp),
            check_quotactl_permission(type, cmd, id, admin))

do_quotactl(f, type, cmd, id, admin, pathp) ==
  IF ~class_valid(type, cmd) THEN { Out("EINVAL", <<>>) }
  ELSE IF ~f.has_qcop THEN { Out("ENOSYS", <<>>) }
  ELSE Then(check_quotactl_permission(type, cmd, id, admin),
            dispatch(f, type, cmd, id, pathp))

----------------------------------------------------------------------------
(* quotactl_block: look up the super block on the device named by special *)

(* Q_SETQUOTA listed among the commands that do not block *)
quotactl_cmd_write_setquota_reads(cmd) ==
  cmd \notin {"Q_GETFMT", "Q_GETINFO", "Q_SYNC", "Q_XGETQSTAT",
              "Q_XGETQSTATV", "Q_XGETQUOTA", "Q_XQUOTASYNC", "Q_SETQUOTA"}

(* Q_GETINFO missing from the commands that do not block *)
quotactl_cmd_write_getinfo_blocks(cmd) ==
  cmd \notin {"Q_GETFMT", "Q_SYNC", "Q_XGETQSTAT",
              "Q_XGETQSTATV", "Q_XGETQUOTA", "Q_XQUOTASYNC"}

quotactl_cmd_write(cmd) ==
  cmd \notin {"Q_GETFMT", "Q_GETINFO", "Q_SYNC", "Q_XGETQSTAT",
              "Q_XGETQSTATV", "Q_XGETQUOTA", "Q_XQUOTASYNC"}

(* get_super(): the super block is returned pinned, frozen or not *)
get_super(special, frz) ==
  IF special = "nomount" THEN { Out("NULL", << <<"get_super", "null">> >>) }
  ELSE { Out("OK", << <<"get_super", IF frz THEN "pin_frozen" ELSE "pin">> >>) }

(* get_super_thawed(): as get_super(), but sleeps while the super block is  *)
(* frozen and returns it pinned once it is thawed                           *)
get_super_thawed(special, frz) ==
  IF special = "nomount"
  THEN { Out("NULL", << <<"get_super_thawed", "null">> >>) }
  ELSE IF frz THEN { Out("WAIT", << <<"get_super_thawed", "wait">> >>) }
  ELSE { Out("OK", << <<"get_super_thawed", "pin">> >>) }

get_super_thawed_wake ==
  { Out("OK", << <<"get_super_thawed", "pin">> >>) }

quotactl_block(special, cmd, frz) ==
  IF special \in {"NULL", "badptr"}
  THEN { Out("EFAULT", << <<"getname", "fault">> >>) }
  ELSE Pre(<< <<"getname", "ok">> >>,
    IF special = "nodev"
    THEN { Out("ENOTBLK", << <<"lookup_bdev", "err">> >>) }
    ELSE Pre(<< <<"lookup_bdev", "ok">> >>,
      { IF s.ret = "NULL" THEN Out("ENODEV", s.ev) ELSE s :
          s \in (IF quotactl_cmd_write(cmd)
                 THEN get_super_thawed(special, frz)
                 ELSE get_super(special, frz)) }))

drop_super == << <<"drop_super", "sb">> >>

----------------------------------------------------------------------------
(* quota_sync_all: Q_SYNC without a device *)

SuperKinds == {"noqcop", "nosync", "sync_ok", "sync_fail"}

(* the call made without testing s_qcop and its quota_sync member *)
quota_sync_one_unchecked(kind, type) ==
  << <<"quota_sync_one", kind>>, <<"call", "quota_sync">>,
     <<"sync_class", ToString(type)>> >>

(* the value quota_sync returns is dropped: quota_sync_one is void *)
quota_sync_one(kind, type) ==
  IF kind \in {"sync_ok", "sync_fail"}
  THEN << <<"quota_sync_one", kind>>, <<"call", "quota_sync">>,
          <<"sync_class", ToString(type)>> >>
  ELSE << <<"quota_sync_one", kind>> >>

RECURSIVE iterate_supers(_, _)
iterate_supers(sups, type) ==
  IF sups = <<>> THEN <<>>
  ELSE quota_sync_one(Head(sups), type) \o iterate_supers(Tail(sups), type)

(* the supers iterated before the hook is asked *)
quota_sync_all_hook_last(type) ==
  IF type >= MAXQUOTAS THEN { Out("EINVAL", <<>>) }
  ELSE UNION { Pre(iterate_supers(sups, type), security_quotactl) :
                 sups \in UNION { [1..n -> SuperKinds] : n \in 0..MaxSupers } }

quota_sync_all(type) ==
  IF type >= MAXQUOTAS THEN { Out("EINVAL", <<>>) }
  ELSE UNION { IF h.ret = "OK"
               THEN { Out("OK", h.ev \o iterate_supers(sups, type)) :
                        sups \in UNION { [1..n -> SuperKinds] : n \in 0..MaxSupers } }
               ELSE {h} : h \in security_quotactl }

----------------------------------------------------------------------------
(* compat_quotactl: the legacy command words *)

IsCompat(cmds) == cmds \in CompatCmds

CompatDelegated == {"QC_QUOTAON", "QC_QUOTAOFF", "QC_SYNC"}

CompatResolving ==
  {"QC_GETQUOTA", "QC_SETQUOTA", "QC_SETUSE", "QC_SETQLIM", "QC_GETINFO",
   "QC_SETINFO", "QC_SETGRACE", "QC_SETFLAGS"}

(* QCMD(Q_x, type) handed to sys_quotactl *)
CompatPrimary(cmds) ==
  CASE cmds = "QC_QUOTAON" -> "Q_QUOTAON"
    [] cmds = "QC_QUOTAOFF" -> "Q_QUOTAOFF"
    [] cmds = "QC_SYNC" -> "Q_SYNC"
    [] OTHER -> cmds

(* the opcode the legacy case passes to check_quotactl_permission *)
compat_perm_cmd(cmds) == "Q_GETQUOTA"

(* the body of a case after quotactl_block() returned a super block *)
compat_case(f, cmds, type, id, admin) ==
  Then(check_quotactl_permission(type, compat_perm_cmd(cmds), id, admin),
    CASE cmds = "QC_GETQUOTA" ->
           Then(qid_valid(type, id),
                Then(RawCall(f, "get_dqblk"), copy_to_user))
      [] cmds \in {"QC_SETQUOTA", "QC_SETUSE", "QC_SETQLIM"} ->
           Then(copy_from_user,
                Then(qid_valid(type, id), RawCall(f, "set_dqblk")))
      [] cmds = "QC_GETINFO" ->
           Then(RawCall(f, "get_info"), copy_to_user)
      [] cmds \in {"QC_SETINFO", "QC_SETGRACE", "QC_SETFLAGS"} ->
           Then(copy_from_user, RawCall(f, "set_info")))

(* the release without its guard *)
compat_release_unguarded(resolved) == drop_super

(* if (sb && !IS_ERR(sb)) drop_super(sb) *)
compat_release(resolved) == IF resolved THEN drop_super ELSE <<>>

compat_finish(f, r) ==
  { IF d.ret = "OOPS" THEN d ELSE Out(d.ret, d.ev \o compat_release(TRUE)) :
      d \in compat_case(f, r.cmds, r.type, r.id, r.admin) }

(* the resolver handed the current opcode of legacy get-info *)
compat_resolve_getinfo_as_primary(f, r, frz) ==
  UNION { IF b.ret = "OK" THEN Pre(b.ev, compat_finish(f, r))
          ELSE IF b.ret = "WAIT" THEN {b}
          ELSE { Out(b.ret, b.ev \o compat_release(FALSE)) } :
          b \in quotactl_block(r.special,
                               IF r.cmds = "QC_GETINFO" THEN "Q_GETINFO"
                               ELSE r.cmds, frz) }

compat_resolve(f, r, frz) ==
  UNION { IF b.ret = "OK" THEN Pre(b.ev, compat_finish(f, r))
          ELSE IF b.ret = "WAIT" THEN {b}
          ELSE { Out(b.ret, b.ev \o compat_release(FALSE)) } :
          b \in quotactl_block(r.special, r.cmds, frz) }

----------------------------------------------------------------------------
(* sys_quotactl *)

(* user_path_at() for Q_QUOTAON: pathp is NULL, an ERR_PTR or &path *)
user_path_at(cmds) ==
  IF cmds = "Q_QUOTAON"
  THEN { [pathp |-> "OK", ev |-> << <<"user_path_at", "ok">> >>],
         [pathp |-> "ERR", ev |-> << <<"user_path_at", "err">> >>] }
  ELSE { [pathp |-> "NULL", ev |-> <<>>] }

(* the release without the IS_ERR test *)
path_put_unless_null(pathp) ==
  IF pathp # "NULL" THEN << <<"path_put", "path">> >> ELSE <<>>

(* out: if (pathp && !IS_ERR(pathp)) path_put(pathp) *)
path_put(pathp) == IF pathp = "OK" THEN << <<"path_put", "path">> >> ELSE <<>>

sys_finish(f, cmds, r, pathp) ==
  { IF d.ret = "OOPS" THEN d
    ELSE Out(d.ret, d.ev \o drop_super \o path_put(pathp)) :
      d \in do_quotactl(f, r.type, cmds, r.id, r.admin, pathp) }

sys_resolve(f, cmds, r, frz, pathp) ==
  UNION { IF b.ret = "OK" THEN Pre(b.ev, sys_finish(f, cmds, r, pathp))
          ELSE IF b.ret = "WAIT" THEN {b}
          ELSE { Out(b.ret, b.ev \o path_put(pathp)) } :
          b \in quotactl_block(r.special, cmds, frz) }

sys_primary(f, cmds, r, frz) ==
  IF r.special = "NULL"
  THEN IF cmds = "Q_SYNC" THEN quota_sync_all(r.type)
       ELSE { Out("ENODEV", <<>>) }
  ELSE UNION { Pre(p.ev, sys_resolve(f, cmds, r, frz, p.pathp)) :
                 p \in user_path_at(cmds) }

compat_quotactl(f, r, frz) ==
  IF r.cmds \in CompatDelegated
  THEN sys_primary(f, CompatPrimary(r.cmds), r, frz)
  ELSE IF r.cmds \in CompatResolving THEN compat_resolve(f, r, frz)
  ELSE IF r.cmds = "QC_GETSTATS" THEN copy_to_user
  ELSE { Out("ENOSYS", <<>>) }

sys_quotactl(f, r, frz) ==
  IF IsCompat(r.cmds) THEN compat_quotactl(f, r, frz)
  ELSE sys_primary(f, r.cmds, r, frz)

(* the rest of the request after get_super_thawed() woke up *)
sys_wake(f, r, l) ==
  Pre(l, Then(get_super_thawed_wake,
      IF r.cmds \in CompatResolving THEN compat_finish(f, r)
      ELSE sys_finish(f, CompatPrimary(r.cmds), r,
                      IF <<"user_path_at", "ok">> \in {l[i] : i \in 1..Len(l)}
                      THEN "OK"
                      ELSE IF <<"user_path_at", "err">> \in {l[i] : i \in 1..Len(l)}
                      THEN "ERR" ELSE "NULL")))

----------------------------------------------------------------------------
(* The state machine *)

PcOf(r) == IF r = "WAIT" THEN "wait_thaw" ELSE IF r = "OOPS" THEN "oops" ELSE "done"

Init ==
  /\ pc = "idle"
  /\ req = NoReq
  /\ fs \in FsConfigs
  /\ frozen \in BOOLEAN
  /\ log = <<>>
  /\ ret = "none"
  /\ idq = NoIfDqblk
  /\ fdq = NoFsDiskQuota
  /\ odq = NoIfDqblk

(* a caller enters quotactl(2); the call runs to its return, to an oops, or *)
(* until it sleeps in get_super_thawed()                                    *)
Syscall ==
  /\ pc = "idle"
  /\ \E cmds \in Cmds, type \in Types, special \in Specials, id \in Ids,
        admin \in BOOLEAN :
       LET r == [cmds |-> cmds, type |-> type, special |-> special,
                 id |-> id, admin |-> admin]
       IN \E o \in sys_quotactl(fs, r, frozen) :
            /\ req' = r
            /\ log' = o.ev
            /\ ret' = o.ret
            /\ pc' = PcOf(o.ret)
  /\ UNCHANGED <<fs, frozen, idq, fdq, odq>>

(* the sleeper in get_super_thawed() is woken after the thaw *)
Wake ==
  /\ pc = "wait_thaw"
  /\ ~frozen
  /\ \E o \in sys_wake(fs, req, log) :
       /\ log' = o.ev
       /\ ret' = o.ret
       /\ pc' = PcOf(o.ret)
  /\ UNCHANGED <<req, fs, frozen, idq, fdq, odq>>

(* the caller has its result; the next request may start *)
Return ==
  /\ pc = "done"
  /\ pc' = "idle"
  /\ req' = NoReq
  /\ log' = <<>>
  /\ ret' = "none"
  /\ UNCHANGED <<fs, frozen, idq, fdq, odq>>

Freeze ==
  /\ ~frozen
  /\ frozen' = TRUE
  /\ UNCHANGED <<pc, req, fs, log, ret, idq, fdq, odq>>

Thaw ==
  /\ frozen
  /\ frozen' = FALSE
  /\ UNCHANGED <<pc, req, fs, log, ret, idq, fdq, odq>>

Next == Syscall \/ Wake \/ Return \/ Freeze \/ Thaw

Spec == Init /\ [][Next]_vars

(* the scheduler runs a woken sleeper *)
LiveSpec == Init /\ [][Next]_vars /\ WF_vars(Wake)

----------------------------------------------------------------------------
(* The translation of one record, there and back, as quota_setquota and    *)
(* quota_getquota apply it                                                 *)

XlateInit ==
  /\ pc = "xlate_basic"
  /\ req = NoReq
  /\ fs = [has_qcop |-> TRUE, ops |-> Ops, rdonly |-> FALSE]
  /\ frozen = FALSE
  /\ log = <<>>
  /\ ret = "none"
  /\ idq \in IfDqblks
  /\ fdq = NoFsDiskQuota
  /\ odq = NoIfDqblk

XlateFrom ==
  /\ pc = "xlate_basic"
  /\ fdq' = copy_from_if_dqblk(idq)
  /\ pc' = "xlate_extended"
  /\ UNCHANGED <<req, fs, frozen, log, ret, idq, odq>>

XlateTo ==
  /\ pc = "xlate_extended"
  /\ odq' = copy_to_if_dqblk(fdq)
  /\ pc' = "xlate_back"
  /\ UNCHANGED <<req, fs, frozen, log, ret, idq, fdq>>

XlateNext == XlateFrom \/ XlateTo

XlateSpec == XlateInit /\ [][XlateNext]_vars

----------------------------------------------------------------------------
(* Reading the log of the request in flight *)

Has(e) == \E i \in 1..Len(log) : log[i] = e

HasKind(k) == \E i \in 1..Len(log) : log[i][1] = k

CountIn(l, S) == Cardinality({ i \in 1..Len(l) : l[i] \in S })

PinEvents == { <<"get_super", "pin">>, <<"get_super", "pin_frozen">>,
               <<"get_super_thawed", "pin">> }

Pins(l) == CountIn(l, PinEvents)

Releases(l) == CountIn(l, { <<"drop_super", "sb">> })

(* a call through s_qcop, through a set member or through a NULL one *)
CapabilityInvoked == HasKind("call") \/ HasKind("nullcall")

PrivilegeDenied == Has(<<"capable", "no">>)

HookConsulted == HasKind("security_quotactl")

HookDenied == Has(<<"security_quotactl", "deny">>)

CheckerDenied == HasKind("perm") /\ (PrivilegeDenied \/ HookDenied)

(* the opcode under which the request runs in sys_quotactl / quotactl_block *)
EffCmd == CompatPrimary(req.cmds)

ReadClass == {"Q_GETFMT", "Q_GETINFO", "Q_SYNC", "Q_XGETQSTAT",
              "Q_XGETQSTATV", "Q_XGETQUOTA", "Q_XQUOTASYNC"}

(* the current opcode a legacy command word stands for *)
LegacyOpcode(cmds) ==
  CASE cmds = "QC_QUOTAON" -> "Q_QUOTAON"
    [] cmds = "QC_QUOTAOFF" -> "Q_QUOTAOFF"
    [] cmds = "QC_SYNC" -> "Q_SYNC"
    [] cmds = "QC_GETQUOTA" -> "Q_GETQUOTA"
    [] cmds \in {"QC_SETQUOTA", "QC_SETUSE", "QC_SETQLIM"} -> "Q_SETQUOTA"
    [] cmds = "QC_GETINFO" -> "Q_GETINFO"
    [] cmds \in {"QC_SETINFO", "QC_SETGRACE", "QC_SETFLAGS"} -> "Q_SETINFO"
    [] OTHER -> "Q_UNKNOWN"

----------------------------------------------------------------------------
(* C1: a legacy command word never reaches a capability of the target when *)
(* the permission check of the primary opcode it stands for denies the     *)
(* caller (set-record for legacy set-quota/set-use/set-limits, set-info    *)
(* for legacy set-info/set-grace/set-flags).                               *)
C1_LegacyRespectsPrimaryRule ==
  (   req.cmds \in CompatCmds
   /\ \A o \in check_quotactl_permission(req.type, LegacyOpcode(req.cmds),
                                         req.id, req.admin) : o.ret # "OK")
  => ~HasKind("call")

(* C2: a target that was resolved is released exactly once before the      *)
(* request returns, on every exit path; a target that was not resolved is  *)
(* never released; pins minus releases is never negative and is 0 at       *)
(* return.                                                                 *)
C2_PinReleaseBalanced ==
  /\ \A n \in 0..Len(log) :
        LET l == SubSeq(log, 1, n)
        IN Pins(l) - Releases(l) \in {0, 1}
  /\ Pins(log) <= 1
  /\ pc = "done" => Pins(log) = Releases(log)

C2_Witness ==
  /\ pc = "done"
  /\ req.cmds \in CompatResolving
  /\ ret = "EFAULT"
  /\ Pins(log) = 1
  /\ Releases(log) = 1

UserMemoryKinds == {"getname", "user_path_at", "copy_from_user", "copy_to_user"}

PayloadCopyKinds == {"copy_from_user", "copy_to_user"}

(* the first position of an event of kind k in the log, 0 when there is none *)
FirstOf(k) ==
  IF HasKind(k) THEN CHOOSE i \in 1..Len(log) :
                       log[i][1] = k /\ \A j \in 1..(i-1) : log[j][1] # k
  ELSE 0

(* C3 as stated: when the permission checker denies, no capability was     *)
(* invoked and no caller-supplied buffer or path argument was read or      *)
(* written at any earlier step of the request.                             *)
C3_NoUserAccessBeforeDenial ==
  (pc = "done" /\ CheckerDenied)
  => (~CapabilityInvoked /\ \A k \in UserMemoryKinds : ~HasKind(k))

(* C3 amended: when the permission checker denies, the request returns the *)
(* denial, no capability was invoked and the payload buffer was neither    *)
(* read nor written; the device path has been read to resolve the target,  *)
(* and for enable-quota the path argument has been resolved, before the    *)
(* permission check.                                                       *)
C3_DenialBeforePayloadAndCapability ==
  (pc = "done" /\ CheckerDenied)
  => /\ ~CapabilityInvoked
     /\ \A k \in PayloadCopyKinds : ~HasKind(k)
     /\ ret \in {"EPERM", "EACCES"}
     /\ Has(<<"getname", "ok">>)
     /\ FirstOf("getname") < FirstOf("perm")
     /\ EffCmd = "Q_QUOTAON"
          => (HasKind("user_path_at")
              /\ FirstOf("user_path_at") < FirstOf("perm"))

C3_Witness ==
  /\ pc = "done"
  /\ CheckerDenied
  /\ req.cmds = "Q_SETQUOTA"
  /\ ret = "EPERM"

(* C4 as stated: for enable-quota a path-resolution failure is returned as *)
(* that error without the target resolver being entered.                   *)
C4_PathFailureSkipsResolver ==
  Has(<<"user_path_at", "err">>)
  => (~HasKind("getname") /\ (pc = "done" => ret = "PTR_ERR(path)"))

(* C4 amended: for enable-quota the path argument is resolved before the   *)
(* target resolver is entered; a path-resolution failure does not end the  *)
(* request: the target resolver is still entered, the enable operation is  *)
(* never called with the failed path, and the path error is returned       *)
(* exactly when the target was resolved, the class is valid, permission    *)
(* was granted and the target has the enable operation but not the         *)
(* enable-with-meta-target operation.                                      *)
C4_PathResolvedFirstErrorDeferred ==
  /\ (EffCmd = "Q_QUOTAON" /\ HasKind("getname"))
       => (HasKind("user_path_at")
           /\ FirstOf("user_path_at") < FirstOf("getname"))
  /\ Has(<<"user_path_at", "err">>)
       => /\ HasKind("getname")
          /\ ~Has(<<"call", "quota_on">>)
          /\ ~Has(<<"path_put", "path">>)
          /\ pc = "done"
               => (ret = "PTR_ERR(path)"
                   <=> (   Has(<<"security_quotactl", "allow">>)
                        /\ "quota_on" \in fs.ops
                        /\ "quota_on_meta" \notin fs.ops))

C4_Witness ==
  /\ pc = "done"
  /\ Has(<<"user_path_at", "err">>)
  /\ Pins(log) = 1
  /\ ret = "PTR_ERR(path)"

(* C5: for every write-class opcode (every opcode outside the read-class   *)
(* set) the resolver does not return a handle while the filesystem is      *)
(* frozen: a request that finds it frozen sleeps without a handle, a       *)
(* handle is pinned only while it is thawed, and once the filesystem stays *)
(* thawed the sleeping resolution ends with a pinned handle.               *)
C5_WriteClassWaitsForThaw ==
  /\ [](EffCmd \notin ReadClass
          => (~Has(<<"get_super", "pin">>) /\ ~Has(<<"get_super", "pin_frozen">>)))
  /\ [][(EffCmd' \notin ReadClass /\ Pins(log') > Pins(log)) => ~frozen]_vars
  /\ [][(   pc = "idle" /\ pc' # "idle" /\ frozen
         /\ EffCmd' \notin ReadClass /\ req'.special = "dev"
         /\ Has(<<"lookup_bdev", "ok">>)')
        => (pc' = "wait_thaw" /\ Pins(log') = 0)]_vars
  /\ (<>[](~frozen))
       => [](pc = "wait_thaw"
               => <>(pc # "wait_thaw" /\ Has(<<"get_super_thawed", "pin">>)))

C5_Witness ==
  /\ pc = "done"
  /\ req.cmds = "Q_SETQUOTA"
  /\ Has(<<"get_super_thawed", "wait">>)
  /\ Has(<<"get_super_thawed", "pin">>)
  /\ Has(<<"call", "set_dqblk">>)

(* C6: for every read-class opcode, resolving a target on an existing      *)
(* device with a mounted filesystem yields a pinned handle at once,        *)
(* without waiting for a thaw, whether the filesystem is frozen or not.    *)
C6_ReadClassNeverWaits ==
  (EffCmd \in ReadClass /\ req.special = "dev" /\ pc # "idle")
  => /\ pc # "wait_thaw"
     /\ ~HasKind("get_super_thawed")
     /\ Has(<<"get_super", "pin">>) \/ Has(<<"get_super", "pin_frozen">>)

C6_Witness ==
  /\ pc = "done"
  /\ req.cmds = "Q_GETINFO"
  /\ Has(<<"get_super", "pin_frozen">>)
  /\ ret = "OK"

UnprivilegedRuleAllows(cmd, type, id) ==
  \/ cmd \in {"Q_GETFMT", "Q_SYNC", "Q_GETINFO", "Q_XGETQSTAT",
              "Q_XGETQSTATV", "Q_XQUOTASYNC"}
  \/ /\ cmd \in {"Q_GETQUOTA", "Q_XGETQUOTA"}
     /\ \/ (type = 0 /\ id = CallerEuid)
        \/ (type = 1 /\ id \in CallerEgroups)

(* C8: for a caller without the administration privilege the built-in rule *)
(* lets a command pass (on to the hook) iff the opcode is one of           *)
(* get-format, sync, get-info, get-extended-state, its versioned form,     *)
(* extended-sync, or it is get-record / get-extended-limits on the         *)
(* caller's own user identity or one of the caller's groups; every other   *)
(* combination yields PermissionDenied.                                    *)
C8_UnprivilegedRule ==
  \A i \in 1..Len(log) :
    (log[i][1] = "perm" /\ ~req.admin)
    => IF UnprivilegedRuleAllows(log[i][2], req.type, req.id)
       THEN ~PrivilegeDenied /\ HookConsulted
       ELSE PrivilegeDenied /\ ~HookConsulted /\ pc = "done" /\ ret = "EPERM"

C8_Witness ==
  /\ pc = "done"
  /\ ~req.admin
  /\ req.cmds = "Q_GETQUOTA"
  /\ req.type = 1
  /\ req.id \in CallerEgroups
  /\ Has(<<"call", "get_dqblk">>)
  /\ ret = "OK"

(* the class maximum of the family of the command word *)
FamilyMax(cmds) ==
  IF cmds \in {"Q_XQUOTAON", "Q_XQUOTAOFF", "Q_XQUOTARM", "Q_XGETQSTAT",
               "Q_XGETQSTATV", "Q_XSETQLIM", "Q_XGETQUOTA", "Q_XQUOTASYNC",
               "Q_XUNKNOWN"}
  THEN 3 ELSE 2

(* C9: no capability of a target is invoked with a class index at or above *)
(* the maximum of the opcode's family; a request on a resolved target with *)
(* such a class index is rejected with InvalidArgument, through the        *)
(* primary path and through the legacy command words.                      *)
C9_ClassIndexBounded ==
  /\ CapabilityInvoked => req.type < FamilyMax(req.cmds)
  /\ (   pc = "done" /\ Pins(log) = 1 /\ req.cmds # "QC_GETSTATS"
      /\ req.type >= FamilyMax(req.cmds))
       => ret = "EINVAL"

(* the operations a command word needs; enable needs one of its two *)
NeededOps(cmds) ==
  CASE cmds \in {"Q_QUOTAON", "QC_QUOTAON"} -> {"quota_on", "quota_on_meta"}
    [] cmds \in {"Q_QUOTAOFF", "QC_QUOTAOFF"} -> {"quota_off"}
    [] cmds \in {"Q_GETINFO", "QC_GETINFO"} -> {"get_info"}
    [] cmds \in {"Q_SETINFO", "QC_SETINFO", "QC_SETGRACE", "QC_SETFLAGS"}
         -> {"set_info"}
    [] cmds \in {"Q_GETQUOTA", "Q_XGETQUOTA", "QC_GETQUOTA"} -> {"get_dqblk"}
    [] cmds \in {"Q_SETQUOTA", "Q_XSETQLIM", "QC_SETQUOTA", "QC_SETUSE",
                 "QC_SETQLIM"} -> {"set_dqblk"}
    [] cmds \in {"Q_SYNC", "QC_SYNC"} -> {"quota_sync"}
    [] cmds \in {"Q_XQUOTAON", "Q_XQUOTAOFF"} -> {"set_xstate"}
    [] cmds = "Q_XQUOTARM" -> {"rm_xquota"}
    [] cmds = "Q_XGETQSTAT" -> {"get_xstate"}
    [] cmds = "Q_XGETQSTATV" -> {"get_xstatev"}
    [] OTHER -> {}

(* C10: when the resolved target has no capability set, or lacks the       *)
(* operation the command needs, no absent operation is invoked and a       *)
(* request that got past class validation, permission and the reading of   *)
(* its payload returns NotSupported.                                       *)
C10_AbsentCapabilityNotSupported ==
  /\ ~HasKind("nullcall")
  /\ pc # "oops"
  /\ (   pc = "done" /\ Pins(log) = 1
      /\ NeededOps(req.cmds) # {} /\ NeededOps(req.cmds) \cap fs.ops = {}
      /\ ret \notin {"EINVAL", "EPERM", "EACCES", "EFAULT"})
       => ret = "ENOSYS"

----------------------------------------------------------------------------
(* Q_SYNC without a device *)

Broadcast == EffCmd = "Q_SYNC" /\ req.special = "NULL" /\ pc = "done"

SyncKinds == {"sync_ok", "sync_fail"}

(* C11: in broadcast sync no filesystem's sync capability is invoked when  *)
(* the class is at or above the basic maximum (InvalidArgument) or when    *)
(* the policy hook denies (the hook's denial is returned); the hook is     *)
(* consulted once per broadcast, not per filesystem, and only after the    *)
(* class validation passed.                                                *)
C11_BroadcastGuards ==
  Broadcast
  => /\ req.type >= 2 => (ret = "EINVAL" /\ log = <<>>)
     /\ req.type < 2
          => /\ Len(log) >= 1 /\ log[1][1] = "security_quotactl"
             /\ CountIn(log, { <<"security_quotactl", "allow">>,
                               <<"security_quotactl", "deny">> }) = 1
     /\ HookDenied => (ret = "EACCES" /\ Len(log) = 1)
     /\ (HasKind("quota_sync_one") \/ CapabilityInvoked)
          => (req.type < 2 /\ log[1] = <<"security_quotactl", "allow">>)

C11_Witness ==
  /\ Broadcast
  /\ req.type = 1
  /\ HookDenied
  /\ ret = "EACCES"

(* C12: in broadcast sync with a valid class and the hook allowing, every  *)
(* filesystem visited that has the sync operation gets it called with the  *)
(* given class, one without a capability set or without the operation is   *)
(* skipped, and the result is success whatever the sync calls return, also *)
(* when no filesystem is visited.                                          *)
C12_BroadcastBestEffort ==
  (Broadcast /\ req.type < 2 /\ Has(<<"security_quotactl", "allow">>))
  => /\ ret = "OK"
     /\ \A i \in 1..Len(log) :
          log[i][1] = "quota_sync_one"
          => IF log[i][2] \in SyncKinds
             THEN /\ i + 2 <= Len(log)
                  /\ log[i+1] = <<"call", "quota_sync">>
                  /\ log[i+2] = <<"sync_class", ToString(req.type)>>
             ELSE i = Len(log) \/ log[i+1][1] = "quota_sync_one"
     /\ CountIn(log, { <<"call", "quota_sync">> })
          = CountIn(log, { <<"quota_sync_one", k>> : k \in SyncKinds })
     /\ ~HasKind("nullcall")

C12_Witness ==
  /\ Broadcast
  /\ ret = "OK"
  /\ Has(<<"quota_sync_one", "sync_fail">>)
  /\ Has(<<"quota_sync_one", "nosync">>)

C12_WitnessNoSupers ==
  /\ Broadcast
  /\ ret = "OK"
  /\ log = << <<"security_quotactl", "allow">> >>

----------------------------------------------------------------------------
(* C13: for get-extended-state-versioned on a target that implements the   *)
(* versioned operation, a version tag other than the recognised one yields *)
(* InvalidArgument, the operation is not invoked and nothing is written to *)
(* the caller's buffer; only the version field was read.                   *)
C13_UnknownVersionRejected ==
  Has(<<"qs_version", "unknown">>)
  => /\ req.cmds = "Q_XGETQSTATV"
     /\ "get_xstatev" \in fs.ops
     /\ pc = "done"
     /\ ret = "EINVAL"
     /\ ~CapabilityInvoked
     /\ ~HasKind("copy_to_user")
     /\ CountIn(log, { <<"copy_from_user", "ok">>,
                       <<"copy_from_user", "fault">> }) = 1
     /\ Has(<<"copy_from_user", "ok">>)

C13_Witness ==
  /\ pc = "done"
  /\ req.cmds = "Q_XGETQSTATV"
  /\ Has(<<"qs_version", "unknown">>)
  /\ ret = "EINVAL"

ReadCmds == {"Q_GETFMT", "Q_GETINFO", "Q_GETQUOTA", "Q_XGETQUOTA",
             "Q_XGETQSTAT", "Q_XGETQSTATV", "QC_GETQUOTA", "QC_GETINFO"}

(* the operation whose result a read command copies out *)
ReadOp(cmds) ==
  CASE cmds \in {"Q_GETINFO", "QC_GETINFO"} -> "get_info"
    [] cmds \in {"Q_GETQUOTA", "Q_XGETQUOTA", "QC_GETQUOTA"} -> "get_dqblk"
    [] cmds = "Q_XGETQSTAT" -> "get_xstate"
    [] cmds = "Q_XGETQSTATV" -> "get_xstatev"
    [] OTHER -> "none"

(* C14: for every read command the caller's output buffer is written only  *)
(* after validation, permission and the capability call have succeeded: a  *)
(* request that returns a validation, permission, not-supported,           *)
(* invalid-identity or underlying error has not written the buffer.        *)
C14_OutputWrittenLast ==
  (req.cmds \in ReadCmds /\ pc = "done")
  => /\ ret \notin {"OK", "EFAULT"} => ~HasKind("copy_to_user")
     /\ HasKind("copy_to_user")
          => /\ CountIn(log, { <<"copy_to_user", "ok">>,
                               <<"copy_to_user", "fault">> }) = 1
             /\ Has(<<"security_quotactl", "allow">>)
             /\ FirstOf("security_quotactl") < FirstOf("copy_to_user")
             /\ req.cmds # "Q_GETFMT"
                  => (Has(<<"call", ReadOp(req.cmds)>>)
                      /\ FirstOf("call") < FirstOf("copy_to_user"))
             /\ \A i \in 1..Len(log) :
                  i > FirstOf("copy_to_user") => log[i][1] = "drop_super"

C14_Witness ==
  /\ pc = "done"
  /\ req.cmds = "Q_GETINFO"
  /\ Has(<<"call", "get_info">>)
  /\ ret = "EIO"
  /\ ~HasKind("copy_to_user")

(* C15: extended-sync on a resolved target with a valid class, a           *)
(* capability set and permission granted returns ReadOnlyFilesystem when   *)
(* the filesystem is mounted read-only and success otherwise, and invokes  *)
(* no operation of the capability set.                                     *)
C15_ExtendedSyncNoop ==
  (   req.cmds = "Q_XQUOTASYNC" /\ pc = "done" /\ Pins(log) = 1
   /\ req.type < 3 /\ fs.has_qcop /\ Has(<<"security_quotactl", "allow">>))
  => /\ ret = (IF fs.rdonly THEN "EROFS" ELSE "OK")
     /\ ~CapabilityInvoked

C15_Witness ==
  /\ pc = "done"
  /\ req.cmds = "Q_XQUOTASYNC"
  /\ fs.rdonly
  /\ ret = "EROFS"

----------------------------------------------------------------------------
FieldMaskOf(v) ==
    (IF (v \div 1) % 2 = 1 THEN FS_DQ_BSOFT + FS_DQ_BHARD ELSE 0)
  + (IF (v \div 2) % 2 = 1 THEN FS_DQ_BCOUNT ELSE 0)
  + (IF (v \div 4) % 2 = 1 THEN FS_DQ_ISOFT + FS_DQ_IHARD ELSE 0)
  + (IF (v \div 8) % 2 = 1 THEN FS_DQ_ICOUNT ELSE 0)
  + (IF (v \div 16) % 2 = 1 THEN FS_DQ_BTIMER ELSE 0)
  + (IF (v \div 32) % 2 = 1 THEN FS_DQ_ITIMER ELSE 0)

(* C17: the extended field mask is exactly the union, over the bits set in *)
(* the basic validity mask, of: block limits -> block soft and hard;       *)
(* space usage -> block count; inode limits -> inode soft and hard; inode  *)
(* usage -> inode count; block grace timer -> block timer; inode grace     *)
(* timer -> inode timer; no other bit is set and an empty validity mask    *)
(* gives an empty field mask.                                              *)
C17_FieldMaskMapping ==
  pc \in {"xlate_extended", "xlate_back"}
  => /\ fdq.d_fieldmask = FieldMaskOf(idq.dqb_valid)
     /\ idq.dqb_valid % 64 = 0 => fdq.d_fieldmask = 0

C17_Witness ==
  /\ pc = "xlate_extended"
  /\ idq.dqb_valid = QIF_BLIMITS + QIF_INODES
  /\ fdq.d_fieldmask = FS_DQ_BSOFT + FS_DQ_BHARD + FS_DQ_ICOUNT

----------------------------------------------------------------------------
RejectedUpFront ==
  /\ ret \in {"EINVAL", "EPERM", "EACCES"}
  /\ \/ req.type >= FamilyMax(EffCmd)
     \/ EffCmd \in {"Q_UNKNOWN", "Q_XUNKNOWN"}
     \/ CheckerDenied

(* C18 as stated: a request with a target that is rejected for an          *)
(* out-of-range class index, an unknown opcode or a permission denial      *)
(* returns that error without waiting for a thaw, also when the target is  *)
(* frozen at the time of the request.                                      *)
C18_RejectionsNeverWait ==
  (pc = "done" /\ Pins(log) = 1 /\ RejectedUpFront)
  => ~Has(<<"get_super_thawed", "wait">>)

(* C18 amended: such a rejection is returned without waiting for a thaw    *)
(* when the opcode is read-class; for every write-class opcode (unknown     *)
(* opcodes and the self-resolving legacy words included) the target is      *)
(* resolved before the class, the opcode or the permission is looked at,    *)
(* so a request that finds the filesystem frozen sleeps first, whatever     *)
(* its class index, opcode and caller, validates nothing and invokes no     *)
(* capability while it sleeps, and returns the rejection after the thaw.    *)
C18_RejectionsFollowResolution ==
  /\ [](EffCmd \in ReadClass => ~Has(<<"get_super_thawed", "wait">>))
  /\ [](pc = "wait_thaw"
          => /\ EffCmd \notin ReadClass
             /\ ~HasKind("perm")
             /\ ~CapabilityInvoked
             /\ log[Len(log)] = <<"get_super_thawed", "wait">>)
  /\ []((pc = "done" /\ Has(<<"get_super_thawed", "wait">>))
          => (Has(<<"get_super_thawed", "pin">>)
              /\ (HasKind("perm") => FirstOf("get_super_thawed") < FirstOf("perm"))))
  /\ [][(   pc = "idle" /\ pc' # "idle" /\ frozen
         /\ EffCmd' \notin ReadClass /\ req'.special = "dev"
         /\ Has(<<"lookup_bdev", "ok">>)'
         /\ (   req'.type >= FamilyMax(EffCmd')
             \/ EffCmd' \in {"Q_UNKNOWN", "Q_XUNKNOWN"}
             \/ ~req'.admin))
        => pc' = "wait_thaw"]_vars

C18_Witness ==
  /\ pc = "done"
  /\ req.cmds = "Q_SETQUOTA"
  /\ req.type = 3
  /\ Has(<<"get_super_thawed", "wait">>)
  /\ ret = "EINVAL"

PathGets == CountIn(log, { <<"user_path_at", "ok">> })

PathPuts == CountIn(log, { <<"path_put", "path">> })

(* C19: for enable-quota the reference taken on the path argument is       *)
(* released exactly once on every exit path when path resolution           *)
(* succeeded, and is never released when path resolution failed or when    *)
(* the opcode is not enable-quota.                                         *)
C19_PathReferenceBalanced ==
  /\ PathGets <= 1
  /\ PathPuts <= PathGets
  /\ pc = "done" => PathPuts = PathGets
  /\ pc = "oops" => PathGets = 0
  /\ HasKind("user_path_at") => EffCmd = "Q_QUOTAON"
  /\ EffCmd # "Q_QUOTAON" => PathPuts = 0
  /\ Has(<<"user_path_at", "err">>) => PathPuts = 0
  /\ PathPuts = 1
       => (FirstOf("user_path_at") < FirstOf("path_put")
           /\ FirstOf("path_put") = Len(log))

C19_Witness ==
  /\ pc = "done"
  /\ req.cmds = "Q_QUOTAON"
  /\ req.special = "nomount"
  /\ ret = "ENODEV"
  /\ PathGets = 1
  /\ PathPuts = 1

(* C20: every legacy command word that resolves a target itself is         *)
(* resolved as write-class: on a frozen filesystem its resolution waits    *)
(* for the thaw before any permission check or capability call, also for   *)
(* legacy get-info, whose primary opcode get-info does not wait.           *)
C20_LegacyResolvesAsWriteClass ==
  /\ [](req.cmds \in CompatResolving
          => /\ ~HasKind("get_super")
             /\ (HasKind("perm") \/ CapabilityInvoked)
                  => (Has(<<"get_super_thawed", "pin">>)
                      /\ FirstOf("get_super_thawed") < FirstOf("perm"))
             /\ pc = "wait_thaw" => (~HasKind("perm") /\ ~CapabilityInvoked))
  /\ [][(   pc = "idle" /\ frozen
         /\ req'.cmds \in CompatResolving /\ req'.special = "dev")
        => pc' = "wait_thaw"]_vars
  /\ [][(req'.cmds \in CompatResolving /\ Pins(log') > Pins(log))
        => ~frozen]_vars
  /\ [](req.cmds = "Q_GETINFO"
          => (pc # "wait_thaw" /\ ~HasKind("get_super_thawed")))

C20_Witness ==
  /\ pc = "done"
  /\ req.cmds = "QC_GETINFO"
  /\ Has(<<"get_super_thawed", "wait">>)
  /\ Has(<<"call", "get_info">>)

====
